---- MODULE Spec2Model ----
(***************************************************************************)
(* slack-advanced-exporter: the fetch-emails and fetch-profile-pictures    *)
(* commands.  A run copies the entries of an input zip archive to an       *)
(* output zip archive; the entry named "users.json" is decoded, every      *)
(* record is enriched (profile.email from the users.list API, or            *)
(* profile.image_path from a downloaded picture) and the collection is     *)
(* encoded again.                                                          *)
(*                                                                         *)
(* Strings that the code inspects character by character (picture URLs,    *)
(* the Retry-After header) are sequences of tokens; JSON values are tagged *)
(* records; a JSON object is a sequence of key/value pairs, a decoded Go   *)
(* map is the same sequence in key order (the order encoding/json writes). *)
(***************************************************************************)
EXTENDS Integers, Sequences, FiniteSets, TLC

VARIABLES
    mode,           \* "emails" | "pics": the command run; "client" | "retries":
                    \* fetchUserEmails called alone
    usersPageLimit, \* --users-limit
    usersPace1RPS,  \* --users-pace-1rps
    inFiles,        \* r.File: the entries of the input archive, in order
    pc,             \* position of the single thread of control
    idx,            \* number of input entries the range loop has finished
    out,            \* entries written to the zip writer w, in order
    closeCalls,     \* number of calls of w.Close()
    closeErr,       \* whether w.Close() returned an error
    exitCode,       \* -1 while running, then the process exit status
    open,           \* the handles held: "r" (input reader), "f" (output file)
    data,           \* the decoded record collection
    di,             \* number of records the range loop over data has finished
    mutations,      \* number of writes into a profile map so far
    emails,         \* the table fetchUserEmails returned
    fetchErr,       \* "" or the error fetchUserEmails returned
    res,            \* fetchUserEmails: the table under construction
    total,          \* fetchUserEmails: members seen
    page,           \* fetchUserEmails: zero-based page number
    cursor,         \* fetchUserEmails: cursor of the page being requested
    attempt,        \* fetchUserEmails: attempts already made for this page
    events          \* every remote request, response and sleep, in order

vars == <<mode, usersPageLimit, usersPace1RPS, inFiles, pc, idx, out, closeCalls,
          closeErr, exitCode, open, data, di, mutations, emails, fetchErr, res, total,
          page, cursor, attempt, events>>

runVars == <<inFiles, idx, out, closeCalls, closeErr, exitCode, open, data, di, mutations>>

fetchVars == <<emails, fetchErr, res, total, page, cursor, attempt>>

flagVars == <<mode, usersPageLimit, usersPace1RPS>>

----------------------------------------------------------------------------
(* Bounds *)

\* records in users.json
MaxUsers == 2
\* requests one call of fetchUserEmails may issue when called alone
MaxRequests == 3
\* requests fetchUserEmails may issue inside a fetch-emails run
MaxRunRequests == 2
\* requests the remote end may answer with a failure that is retried or with a
\* page that has a successor, when the retry loop is followed (mode "retries")
MaxRetryRequests == 5

----------------------------------------------------------------------------
(* Generic helpers *)

Min(a, b) == IF a < b THEN a ELSE b

RECURSIVE Pow2(_)
Pow2(n) == IF n = 0 THEN 1 ELSE 2 * Pow2(n - 1)

RECURSIVE SeqsUpTo(_, _)
SeqsUpTo(S, n) ==
    IF n = 0 THEN {<<>>}
    ELSE LET shorter == SeqsUpTo(S, n - 1)
         IN  shorter \cup {Append(s, x) : s \in shorter, x \in S}

\* strings.HasPrefix / strings.HasSuffix on token sequences
HasPrefix(s, p) == Len(s) >= Len(p) /\ SubSeq(s, 1, Len(p)) = p

HasSuffix(s, p) == Len(s) >= Len(p) /\ SubSeq(s, Len(s) - Len(p) + 1, Len(s)) = p

\* the last element of strings.Split(s, "."): the tokens after the last "."
RECURSIVE LastPart(_)
LastPart(s) ==
    IF s = <<>> THEN <<>>
    ELSE IF s[Len(s)] = "." THEN <<>>
    ELSE Append(LastPart(SubSeq(s, 1, Len(s) - 1)), s[Len(s)])

\* the string a token sequence spells
RECURSIVE Spell(_)
Spell(s) == IF s = <<>> THEN "" ELSE s[1] \o Spell(Tail(s))

----------------------------------------------------------------------------
(* encoding/json as the two commands use it: Decode into                   *)
(* []map[string]interface{} and Encode with SetIndent.                     *)
(*                                                                         *)
(* A JSON value is [t |-> "string", s], [t |-> "number", hi, lo] (the      *)
(* non-negative integer hi * 2^30 + lo), [t |-> "object", o] (o a sequence *)
(* of [k, v] pairs) or [t |-> "null"].  The decoded Go value has the same  *)
(* shape: a number is the float64 nearest to the literal, a map is the     *)
(* pair sequence in key order, a missing key reads as nil ("null").        *)

JStr(s) == [t |-> "string", s |-> s]
JNum(hi, lo) == [t |-> "number", hi |-> hi, lo |-> lo]
JObj(fields) == [t |-> "object", o |-> fields]
JNull == [t |-> "null"]
KV(k, v) == [k |-> k, v |-> v]

\* the keys of the model's records, in the byte order encoding/json sorts map keys
KeyOrder == <<"big", "email", "id", "image_original", "image_path", "name", "profile">>

KeyRank(k) == CHOOSE i \in 1..Len(KeyOrder) : KeyOrder[i] = k

LimbBase == 2^30

\* significand bits of a float64
MantissaBits == 53

RECURSIVE BitLen(_)
BitLen(n) == IF n = 0 THEN 0 ELSE 1 + BitLen(n \div 2)

\* strconv.ParseFloat(literal, 64) of the integer hi * 2^30 + lo: exact while
\* the integer has at most 53 bits, else rounded to 53 bits, ties to even
Float64(v) ==
    LET drop == BitLen(v.hi) + 30 - MantissaBits
    IN  IF drop <= 0 THEN v
        ELSE LET unit == Pow2(drop)
                 q    == v.lo \div unit
                 r    == v.lo % unit
                 up   == r * 2 > unit \/ (r * 2 = unit /\ q % 2 = 1)
                 lo2  == (IF up THEN q + 1 ELSE q) * unit
             IN  IF lo2 = LimbBase THEN JNum(v.hi + 1, 0) ELSE JNum(v.hi, lo2)

MapHas(m, k) == \E i \in 1..Len(m) : m[i].k = k

\* m[k]; a missing key yields nil
MapGet(m, k) ==
    IF MapHas(m, k) THEN m[CHOOSE i \in 1..Len(m) : m[i].k = k].v ELSE JNull

\* m[k] = v
MapSet(m, k, v) ==
    IF MapHas(m, k)
    THEN [i \in 1..Len(m) |-> IF m[i].k = k THEN KV(k, v) ELSE m[i]]
    ELSE SelectSeq(m, LAMBDA p : KeyRank(p.k) < KeyRank(k))
         \o <<KV(k, v)>>
         \o SelectSeq(m, LAMBDA p : KeyRank(p.k) > KeyRank(k))

RECURSIVE DecodeValue(_)
RECURSIVE DecodeObject(_)
\* a JSON object into a map: later duplicates of a key overwrite earlier ones
DecodeObject(fields) ==
    IF fields = <<>> THEN <<>>
    ELSE LET n == Len(fields)
         IN  MapSet(DecodeObject(SubSeq(fields, 1, n - 1)), fields[n].k,
                    DecodeValue(fields[n].v))

\* a JSON value into interface{}
DecodeValue(v) ==
    CASE v.t = "number" -> Float64(v)
      [] v.t = "object" -> JObj(DecodeObject(v.o))
      [] OTHER -> v

\* json.NewDecoder(input).Decode(&data), data a []map[string]interface{}:
\* the input must be a JSON array whose elements are objects or null
Decode(body) ==
    IF body.kind # "json" THEN [err |-> TRUE, data |-> <<>>]
    ELSE IF \E i \in 1..Len(body.v) : body.v[i].t \notin {"object", "null"}
    THEN [err |-> TRUE, data |-> <<>>]
    ELSE [err |-> FALSE, data |-> [i \in 1..Len(body.v) |-> DecodeValue(body.v[i])]]

\* the decimal digits of a natural number, lowest first
RECURSIVE Digits(_)
Digits(n) == IF n < 10 THEN <<n>> ELSE <<n % 10>> \o Digits(n \div 10)

\* the digits of d * m + carry
RECURSIVE MulDigits(_, _, _)
MulDigits(d, m, carry) ==
    IF d = <<>> THEN (IF carry = 0 THEN <<>> ELSE Digits(carry))
    ELSE LET x == d[1] * m + carry
         IN  <<x % 10>> \o MulDigits(Tail(d), m, x \div 10)

\* the digits of a + b + carry
RECURSIVE AddDigits(_, _, _)
AddDigits(a, b, carry) ==
    IF a = <<>> /\ b = <<>> THEN (IF carry = 0 THEN <<>> ELSE <<carry>>)
    ELSE LET x == (IF a = <<>> THEN 0 ELSE a[1]) + (IF b = <<>> THEN 0 ELSE b[1]) + carry
         IN  <<x % 10>> \o AddDigits(IF a = <<>> THEN <<>> ELSE Tail(a),
                                     IF b = <<>> THEN <<>> ELSE Tail(b), x \div 10)

\* the decimal digits of hi * 2^30 + lo, lowest first
Decimal(v) ==
    AddDigits(MulDigits(MulDigits(Digits(v.hi), 2^15, 0), 2^15, 0), Digits(v.lo), 0)

\* the value of a digit sequence, or cap + 1 when it is larger than cap
RECURSIVE Capped(_, _)
Capped(d, cap) ==
    IF d = <<>> THEN 0 ELSE Min(cap + 1, d[1] + 10 * Capped(Tail(d), cap))

\* hi * 2^30 + lo + n, for a small n of either sign
AddSmall(v, n) ==
    LET lo2 == v.lo + n
    IN  IF lo2 < 0 THEN JNum(v.hi - 1, lo2 + LimbBase)
        ELSE IF lo2 >= LimbBase THEN JNum(v.hi + 1, lo2 - LimbBase)
        ELSE JNum(v.hi, lo2)

\* variant: the float64 is written with all the digits of its value
ShortestExact(v) == v
\* strconv.AppendFloat(b, f, 'f', -1, 64) of an integral float64 below 1e21:
\* the decimal with the fewest significant digits that parses back to f,
\* padded with zeros.  Below 2^53 that is the integer itself.  From 2^53 on,
\* with u the distance to the next float64, the decimals that parse back lie
\* within u/2 of f (within u/4 below a power of two), ends included when the
\* significand is even; the result is the multiple of the largest power of
\* ten in that range, the nearer one when there are two.
Shortest(v) ==
    LET drop == BitLen(v.hi) + 30 - MantissaBits
    IN  IF drop <= 0 THEN v
        ELSE
          LET ulp      == Pow2(drop)
              dec      == Decimal(v)
              even     == (v.lo \div ulp) % 2 = 0
              pow2     == v.lo = 0 /\ v.hi = Pow2(BitLen(v.hi) - 1)
              Below(k) == Capped(SubSeq(dec, 1, k), ulp)
              Above(k) == Capped(AddDigits([i \in 1..k |-> 9 - dec[i]], <<1>>, 0), ulp)
              DownOk(k) ==
                  LET c == IF pow2 THEN 4 ELSE 2
                  IN  IF even THEN c * Below(k) <= ulp ELSE c * Below(k) < ulp
              UpOk(k) == IF even THEN 2 * Above(k) <= ulp ELSE 2 * Above(k) < ulp
              ks == {k \in 1..Len(dec) : DownOk(k) \/ UpOk(k)}
          IN  IF ks = {} THEN v
              ELSE
                LET k == CHOOSE x \in ks : \A y \in ks : y <= x
                    down ==
                        /\ DownOk(k)
                        /\ \/ ~UpOk(k)
                           \/ Below(k) < Above(k)
                           \/ Below(k) = Above(k) /\ k < Len(dec) /\ dec[k + 1] % 2 = 0
                IN  IF down THEN AddSmall(v, 0 - Below(k)) ELSE AddSmall(v, Above(k))

RECURSIVE EncodeValue(_)
\* interface{} into JSON: a float64 with an integral value below 1e21 is
\* written in 'f' format with the fewest digits that identify it, a map with
\* its keys sorted
EncodeValue(v) ==
    CASE v.t = "number" -> Shortest(v)
      [] v.t = "object" ->
            JObj([i \in 1..Len(v.o) |-> KV(v.o[i].k, EncodeValue(v.o[i].v))])
      [] OTHER -> v

\* enc.Encode(&data)
Encode(d) == [kind |-> "json", v |-> [i \in 1..Len(d) |-> EncodeValue(d[i])]]

\* user[k] of a record of the collection (a nil map reads as nil everywhere)
Field(user, k) == IF user.t = "object" THEN MapGet(user.o, k) ELSE JNull

\* the type assertions v.(string) and v.(map[string]interface{})
IsString(v) == v.t = "string"

IsMap(v) == v.t = "object"

----------------------------------------------------------------------------
(* fetchUserEmails: the users.list client *)

\* strconv.Atoi on a sequence of characters: an optional sign, then one or
\* more decimal digits
DigitChars == <<"0", "1", "2", "3", "4", "5", "6", "7", "8", "9">>

IsDigit(c) == \E i \in 1..Len(DigitChars) : DigitChars[i] = c

DigitVal(c) == (CHOOSE i \in 1..Len(DigitChars) : DigitChars[i] = c) - 1

RECURSIVE DigitsValue(_)
DigitsValue(s) ==
    IF s = <<>> THEN 0
    ELSE 10 * DigitsValue(SubSeq(s, 1, Len(s) - 1)) + DigitVal(s[Len(s)])

Atoi(s) ==
    LET signed == s # <<>> /\ s[1] \in {"+", "-"}
        digits == IF signed THEN Tail(s) ELSE s
    IN  IF digits = <<>> \/ \E i \in 1..Len(digits) : ~IsDigit(digits[i])
        THEN [err |-> TRUE, v |-> 0]
        ELSE [err |-> FALSE,
              v |-> IF signed /\ s[1] = "-" THEN 0 - DigitsValue(digits)
                    ELSE DigitsValue(digits)]

\* variant: no default of 1 second when the header does not parse
WaitSecNoDefault(ra) == IF Atoi(ra).err THEN 0 ELSE Atoi(ra).v
\* the seconds slept after a 429 whose Retry-After header is ra ("" when absent)
WaitSec(ra) ==
    IF ra # <<>> /\ ~Atoi(ra).err THEN Atoi(ra).v ELSE 1

\* variant: the exponent is not capped at 3
BackoffUncapped(n) == Pow2(n)
\* the seconds slept after a network error or a 5xx answer
Backoff(n) == Pow2(Min(n, 3))

\* the page size after the bounds of lines 155-160
ClampLimit(n) == IF n <= 0 THEN 200 ELSE IF n > 999 THEN 999 ELSE n

\* a map[string]string is a set of [id, email] pairs with distinct ids
TableHas(t, id) == \E e \in t : e.id = id

\* t[id]; a missing key yields ""
TableGet(t, id) == IF TableHas(t, id) THEN (CHOOSE e \in t : e.id = id).email ELSE ""

\* t[id] = email
TablePut(t, id, email) == {e \in t : e.id # id} \cup {[id |-> id, email |-> email]}

\* variant: a member with an empty email is kept
KeepMemberAnyEmail(m) == m.id # ""
\* line 253: the members that are kept
KeepMember(m) == m.id # "" /\ m.email # ""

RECURSIVE AddMembersFirstWins(_, _)
\* variant: an identifier already in the table is not overwritten
AddMembersFirstWins(t, members) ==
    IF members = <<>> THEN t
    ELSE LET m == Head(members)
         IN  AddMembersFirstWins(
                 IF KeepMember(m) /\ ~TableHas(t, m.id) THEN TablePut(t, m.id, m.email) ELSE t,
                 Tail(members))
\* lines 252-256: the loop over data.Members
RECURSIVE AddMembers(_, _)
AddMembers(t, members) ==
    IF members = <<>> THEN t
    ELSE LET m == Head(members)
         IN  AddMembers(IF KeepMember(m) THEN TablePut(t, m.id, m.email) ELSE t,
                        Tail(members))

\* what the remote end may answer
Member(id, email) == [id |-> id, email |-> email]

NetErr == [kind |-> "neterr"]

Body(valid, ok, members, next) ==
    [valid |-> valid, ok |-> ok, members |-> members, next |-> next]

Http(status, retryAfter, body) ==
    [kind |-> "http", status |-> status, retryAfter |-> retryAfter, body |-> body]

NoBody == Body(FALSE, FALSE, <<>>, "")

RetryAfterPool == {<<>>, <<"2">>, <<"1", "0">>, <<"0">>, <<"x">>}

MemberLists ==
    { <<Member("U1", "a@x")>>,
      <<Member("U1", "a@x"), Member("U1", "b@x")>>,
      <<Member("U1", ""), Member("", "c@x"), Member("U2", "a@x")>> }

Cursors == {"", "A", "B"}

WideResponses ==
    {NetErr}
    \cup {Http(429, ra, NoBody) : ra \in RetryAfterPool}
    \cup {Http(500, <<>>, NoBody), Http(404, <<>>, NoBody)}
    \cup {Http(200, <<>>, NoBody), Http(200, <<>>, Body(TRUE, FALSE, <<>>, ""))}
    \cup {Http(200, <<>>, Body(TRUE, TRUE, m, c)) : m \in MemberLists, c \in Cursors}

NarrowResponses ==
    { NetErr,
      Http(429, <<"2">>, NoBody),
      Http(404, <<>>, NoBody),
      Http(200, <<>>, Body(TRUE, FALSE, <<>>, "")),
      Http(200, <<>>, Body(TRUE, TRUE, <<Member("U1", "a@x")>>, "A")),
      Http(200, <<>>, Body(TRUE, TRUE, <<Member("U2", "b@x"), Member("U1", "c@x")>>, "")) }

\* line 194 and lines 201, 215: the answers the retry loop does not leave on
Transient(r) == r.kind = "neterr" \/ r.status = 429 \/ r.status >= 500

\* an answer after which fetchUserEmails issues no request
Terminal(r) ==
    /\ ~Transient(r)
    /\ ~(r.status = 200 /\ r.body.valid /\ r.body.ok /\ r.body.next # "")

\* the answers given when the retry loop is followed: each class of failure
\* that is retried, statuses that are not, broken and refused bodies, a page
\* with a successor and a last page
RetryResponses ==
    { NetErr,
      Http(429, <<"2">>, NoBody),
      Http(500, <<>>, NoBody),
      Http(503, <<>>, NoBody),
      Http(401, <<>>, NoBody),
      Http(403, <<>>, NoBody),
      Http(404, <<>>, NoBody),
      Http(200, <<>>, NoBody),
      Http(200, <<>>, Body(TRUE, FALSE, <<>>, "")),
      Http(200, <<>>, Body(TRUE, TRUE, <<Member("U1", "a@x")>>, "A")),
      Http(200, <<>>, Body(TRUE, TRUE, <<Member("U2", "b@x")>>, "")) }

\* the answers the remote end may give to the next request; when the retry
\* loop is followed it stops failing after MaxRetryRequests requests
Responses ==
    CASE mode = "client" -> WideResponses
      [] mode = "retries" ->
            IF Len(SelectSeq(events, LAMBDA x : x.e = "req")) < MaxRetryRequests
            THEN RetryResponses
            ELSE {r \in RetryResponses : Terminal(r)}
      [] OTHER -> NarrowResponses

RequestBound ==
    CASE mode = "client" -> MaxRequests
      [] mode = "retries" -> MaxRetryRequests + 1
      [] OTHER -> MaxRunRequests

\* the log
ReqEvent(c, limit) == [e |-> "req", cursor |-> c, limit |-> limit]

RespEvent(r) == [e |-> "resp", r |-> r]

SleepEvent(why, secs) == [e |-> "sleep", why |-> why, secs |-> secs]

Requests(log) == SelectSeq(log, LAMBDA x : x.e = "req")

\* lines 151-172: the page size is bounded, the locals are initialised
FetchBegin ==
    /\ pc = "fetchStart"
    /\ usersPageLimit' = ClampLimit(usersPageLimit)
    /\ res' = {}
    /\ total' = 0
    /\ page' = 0
    /\ cursor' = ""
    /\ attempt' = 0
    /\ pc' = "request"
    /\ UNCHANGED <<mode, usersPace1RPS, runVars, emails, fetchErr, events>>

\* the outcome of fetchUserEmails, handed to its caller
Return(table, err) ==
    /\ pc' = "fetched"
    /\ emails' = table
    /\ fetchErr' = err

\* variant: the cursor is not advanced
NextCursorStale(body) == cursor
\* the cursor the next page request carries
NextCursor(body) == body.next

\* variant: the pacing flag is ignored
PaceAlways(log) == Append(log, SleepEvent("pace", 1))
\* lines 262-272: what follows a page whose cursor is not empty
Pace(log) == IF usersPace1RPS THEN Append(log, SleepEvent("pace", 1)) ELSE log

\* variant: the success marker is not looked at
OkMarkerIgnored(body) == TRUE
\* line 248: data.Ok
OkMarker(body) == body.ok

\* variant: the entries gathered so far are returned with the error
PartialTable == res
\* lines 228, 245, 249: the nil map returned with an error
NoTable == {}

\* lines 226-272: a response that left the retry loop
Page(r, log) ==
    IF r.status # 200 THEN
        /\ Return(NoTable, "http")
        /\ events' = log
        /\ UNCHANGED <<res, total, page, cursor, attempt>>
    ELSE IF ~r.body.valid THEN
        /\ Return(NoTable, "json")
        /\ events' = log
        /\ UNCHANGED <<res, total, page, cursor, attempt>>
    ELSE IF ~OkMarker(r.body) THEN
        /\ Return(NoTable, "notok")
        /\ events' = log
        /\ UNCHANGED <<res, total, page, cursor, attempt>>
    ELSE
        /\ res' = AddMembers(res, r.body.members)
        /\ total' = total + Len(r.body.members)
        /\ IF r.body.next = "" THEN
               /\ Return(res', "")
               /\ events' = log
               /\ UNCHANGED <<page, cursor, attempt>>
           ELSE
               /\ cursor' = NextCursor(r.body)
               /\ page' = page + 1
               /\ attempt' = 0
               /\ events' = Pace(log)
               /\ UNCHANGED <<pc, emails, fetchErr>>

\* variant: the third failure of a page is returned to the caller
RetryGivesUp(log, why, secs) ==
    IF attempt >= 2 THEN
        /\ Return(NoTable, "transient")
        /\ events' = log
        /\ UNCHANGED <<res, total, page, cursor, attempt>>
    ELSE
        /\ events' = Append(log, SleepEvent(why, secs))
        /\ attempt' = attempt + 1
        /\ UNCHANGED <<pc, emails, fetchErr, res, total, page, cursor>>
\* lines 194-221: a failure that is retried after a sleep
Retry(log, why, secs) ==
    /\ events' = Append(log, SleepEvent(why, secs))
    /\ attempt' = attempt + 1
    /\ UNCHANGED <<pc, emails, fetchErr, res, total, page, cursor>>

\* lines 186-272: one request of the retry loop and everything that follows
\* it up to the next request or the return
Attempt ==
    /\ pc = "request"
    /\ Len(Requests(events)) < RequestBound
    /\ \E r \in Responses :
         LET log == events \o <<ReqEvent(cursor, usersPageLimit), RespEvent(r)>>
         IN  IF r.kind = "neterr" THEN Retry(log, "net", Backoff(attempt))
             ELSE IF r.status = 429 THEN Retry(log, "rate", WaitSec(r.retryAfter))
             ELSE IF r.status >= 500 THEN Retry(log, "server", Backoff(attempt))
             ELSE Page(r, log)
    /\ UNCHANGED <<flagVars, runVars>>

\* fetchUserEmails called on its own, with each setting of the two flags
InitFetch ==
    /\ mode = "client"
    /\ usersPageLimit \in {0, 150, 1000}
    /\ usersPace1RPS \in BOOLEAN
    /\ inFiles = <<>>
    /\ pc = "fetchStart"
    /\ idx = 0
    /\ out = <<>>
    /\ closeCalls = 0
    /\ closeErr = FALSE
    /\ exitCode = -1
    /\ open = {}
    /\ data = <<>>
    /\ di = 0
    /\ mutations = 0
    /\ emails = {}
    /\ fetchErr = ""
    /\ res = {}
    /\ total = 0
    /\ page = 0
    /\ cursor = ""
    /\ attempt = 0
    /\ events = <<>>

NextFetch == FetchBegin \/ Attempt

SpecFetch == InitFetch /\ [][NextFetch]_vars

\* fetchUserEmails called on its own against a remote end that fails, and
\* hands out pages with a successor, only finitely often
InitRetry ==
    /\ mode = "retries"
    /\ usersPageLimit \in {0, 150}
    /\ usersPace1RPS \in BOOLEAN
    /\ inFiles = <<>>
    /\ pc = "fetchStart"
    /\ idx = 0
    /\ out = <<>>
    /\ closeCalls = 0
    /\ closeErr = FALSE
    /\ exitCode = -1
    /\ open = {}
    /\ data = <<>>
    /\ di = 0
    /\ mutations = 0
    /\ emails = {}
    /\ fetchErr = ""
    /\ res = {}
    /\ total = 0
    /\ page = 0
    /\ cursor = ""
    /\ attempt = 0
    /\ events = <<>>

\* the thread of control keeps running: a request that can be issued is issued
\* and answered
SpecRetry == InitRetry /\ [][NextFetch]_vars /\ WF_vars(NextFetch)

----------------------------------------------------------------------------
(* The archives and the users.json collections the runs are given *)

\* a string value kept as the tokens the code inspects (a picture URL)
JUrl(tokens) == [t |-> "string", u |-> tokens]

\* the Go string of a JSON string value
StringOf(v) == IF "u" \in DOMAIN v THEN Spell(v.u) ELSE v.s

\* the tokens of a JSON string value
TokensOf(v) == IF "u" \in DOMAIN v THEN v.u ELSE <<v.s>>

AvatarPrefix == <<"https://", "avatars", ".", "slack-edge", ".", "com", "/">>

JpgSuffix == <<".", "jpg">>

PngSuffix == <<".", "png">>

GoodJpg == AvatarPrefix \o <<"2020-01-01/U123_512", ".", "jpg">>

GoodPng == AvatarPrefix \o <<"T1/U2_v", ".", "2", ".", "png">>

OtherOrigin == <<"https://", "example", ".", "com", "/", "a", ".", "jpg">>

UpperExt == AvatarPrefix \o <<"a", ".", "JPG">>

BadEscape == AvatarPrefix \o <<"%zz", ".", "png">>

\* 2^53 + 1, the smallest positive integer that is no float64
BigNumber == JNum(2^23, 1)

\* 18014398509481992 = 2^54 + 8, a float64 whose shortest decimal is another integer
LongNumber == JNum(2^24, 8)

EmailsPool ==
    { JObj(<<KV("id", JStr("U1")), KV("name", JStr("ann")),
             KV("profile", JObj(<<KV("email", JStr("old@x")),
                                   KV("image_original", JUrl(GoodJpg))>>))>>),
      JObj(<<KV("profile", JObj(<<>>)), KV("id", JStr("U9")), KV("big", BigNumber)>>),
      JObj(<<KV("name", JStr("noid")), KV("profile", JObj(<<>>))>>),
      JObj(<<KV("id", JNum(0, 7)), KV("profile", JObj(<<KV("email", JStr("keep@x"))>>))>>),
      JObj(<<KV("id", JStr("U2")), KV("name", JStr("bob"))>>),
      JNull }

PicsPool ==
    { JObj(<<KV("id", JStr("U1")), KV("name", JStr("ann")),
             KV("profile", JObj(<<KV("image_original", JUrl(GoodJpg))>>))>>),
      JObj(<<KV("profile", JObj(<<KV("image_path", JStr("old")),
                                   KV("image_original", JUrl(GoodPng))>>)),
             KV("id", JStr("U2")), KV("big", LongNumber)>>),
      JObj(<<KV("id", JStr("U3")),
             KV("profile", JObj(<<KV("image_original", JUrl(OtherOrigin))>>))>>),
      JObj(<<KV("id", JStr("U4")),
             KV("profile", JObj(<<KV("image_original", JUrl(UpperExt))>>))>>),
      JObj(<<KV("id", JStr("U5")), KV("profile", JObj(<<KV("email", JStr("e@x"))>>))>>),
      JObj(<<KV("name", JStr("noid")),
             KV("profile", JObj(<<KV("image_original", JUrl(GoodJpg))>>))>>),
      JObj(<<KV("id", JStr("U7")),
             KV("profile", JObj(<<KV("image_original", JUrl(BadEscape))>>))>>),
      JObj(<<KV("id", JStr("U8")), KV("name", JStr("hal"))>>) }

Raw(bytes) == [kind |-> "raw", bytes |-> bytes]

Json(elements) == [kind |-> "json", v |-> elements]

\* the contents users.json may have: a record collection, an array with an
\* element that is no object, bytes that are no JSON
UsersBodies(pool) ==
    {Json(d) : d \in SeqsUpTo(pool, MaxUsers)} \cup {Json(<<JStr("x")>>), Raw("garbage")}

File(name, header, body) == [name |-> name, header |-> header, body |-> body]

\* the input archives: users.json in the middle, first, or missing
Archives(pool) ==
    {<<File("channels.json", "hdrA", Raw("b1")), File("users.json", "hdrU", u),
       File("profile_pictures/U1.jpg", "hdrB", Raw("b2"))>> : u \in UsersBodies(pool)}
    \cup {<<File("users.json", "hdrU", u), File("channels.json", "hdrA", Raw("b1"))>> :
            u \in UsersBodies(pool)}
    \cup {<<File("channels.json", "hdrA", Raw("b1")), File("general/2020.json", "hdrB", Raw("b2"))>>}

\* the header w.Create gives an entry
FreshHeader == "deflate"

\* an entry whose header is written and whose content is not
Empty == [kind |-> "empty"]

\* an entry whose content broke off
Partial(body) == [kind |-> "partial", of |-> body]

----------------------------------------------------------------------------
(* The two commands *)

Init ==
    /\ mode \in {"emails", "pics"}
    /\ usersPageLimit = 999
    /\ usersPace1RPS = TRUE
    /\ inFiles \in Archives(IF mode = "emails" THEN EmailsPool ELSE PicsPool)
    /\ pc = "start"
    /\ idx = 0
    /\ out = <<>>
    /\ closeCalls = 0
    /\ closeErr = FALSE
    /\ exitCode = -1
    /\ open = {}
    /\ data = <<>>
    /\ di = 0
    /\ mutations = 0
    /\ emails = {}
    /\ fetchErr = ""
    /\ res = {}
    /\ total = 0
    /\ page = 0
    /\ cursor = ""
    /\ attempt = 0
    /\ events = <<>>

\* os.Exit(1): deferred calls do not run
Exit1 ==
    /\ pc' = "exited"
    /\ exitCode' = 1

\* lines 40-56 (28-44 in fetch-profile-pictures)
OpenArchives ==
    /\ pc = "start"
    /\ \E o \in {"ok", "noInput", "noOutput"} :
         IF o = "noInput" THEN Exit1 /\ open' = {}
         ELSE IF o = "noOutput" THEN Exit1 /\ open' = {"r"}
         ELSE /\ open' = {"r", "f"}
              /\ pc' = "loop"
              /\ UNCHANGED exitCode
    /\ UNCHANGED <<flagVars, fetchVars, inFiles, idx, out, closeCalls, closeErr, data,
                   di, mutations, events>>

\* variant: the entry is put before the others
PutFirst(entries, f) == <<f>> \o entries
\* the entries after the one being created; the code appends
Put(entries, f) == Append(entries, f)

\* variant: no byte is copied
CopiedEmpty(body) == Empty
\* what io.Copy leaves in the entry
Copied(body) == body

\* lines 59-90 (47-76): an entry that is not users.json is opened, its header
\* is copied into a new output entry and its bytes are streamed
CopyEntry ==
    /\ pc = "loop"
    /\ idx < Len(inFiles)
    /\ inFiles[idx + 1].name # "users.json"
    /\ LET file == inFiles[idx + 1]
       IN  \E o \in {"ok", "openFail", "createFail", "copyFail"} :
             IF o \in {"openFail", "createFail"} THEN
                 Exit1 /\ UNCHANGED <<idx, out>>
             ELSE IF o = "copyFail" THEN
                 /\ Exit1
                 /\ out' = Put(out, File(file.name, file.header, Partial(file.body)))
                 /\ UNCHANGED idx
             ELSE
                 /\ out' = Put(out, File(file.name, file.header, Copied(file.body)))
                 /\ idx' = idx + 1
                 /\ UNCHANGED <<pc, exitCode>>
    /\ UNCHANGED <<flagVars, fetchVars, inFiles, closeCalls, closeErr, open, data, di,
                   mutations, events>>

\* the body of the last entry of the output is replaced
SetLastBody(entries, body) ==
    [entries EXCEPT ![Len(entries)] = File(@.name, @.header, body)]

\* fetch-emails, lines 59-83 and 102-113: users.json is opened, its output
\* entry is created with the input header, its content is decoded
ProcessUsersBegin ==
    /\ pc = "loop"
    /\ mode = "emails"
    /\ idx < Len(inFiles)
    /\ inFiles[idx + 1].name = "users.json"
    /\ LET file == inFiles[idx + 1]
           dec  == Decode(file.body)
       IN  \E o \in {"ok", "openFail", "createFail"} :
             IF o # "ok" THEN
                 Exit1 /\ UNCHANGED <<out, data, di>>
             ELSE IF dec.err THEN
                 /\ Exit1
                 /\ out' = Put(out, File(file.name, file.header, Empty))
                 /\ UNCHANGED <<data, di>>
             ELSE
                 /\ out' = Put(out, File(file.name, file.header, Empty))
                 /\ data' = dec.data
                 /\ di' = 0
                 /\ pc' = "fetchStart"
                 /\ UNCHANGED exitCode
    /\ UNCHANGED <<flagVars, fetchVars, inFiles, idx, closeCalls, closeErr, open,
                   mutations, events>>

\* variant: the error of the fetch is ignored
FetchFailedNever == FALSE
\* line 116: the error check on what fetchUserEmails returned
FetchFailed == fetchErr # ""

\* variant: a collection without records is accepted
NoUsersAllowed == FALSE
\* line 120: the collection decoded from users.json has no record
NoUsers == Len(data) = 0

\* lines 115-124: the fetch has returned
AfterFetch ==
    /\ pc = "fetched"
    /\ mode = "emails"
    /\ IF FetchFailed \/ NoUsers
       THEN Exit1
       ELSE pc' = "update" /\ UNCHANGED exitCode
    /\ UNCHANGED <<flagVars, fetchVars, inFiles, idx, out, closeCalls, closeErr, open,
                   data, di, mutations, events>>

\* profile[k] = v, profile being the map user["profile"]
SetProfileField(user, k, v) ==
    JObj(MapSet(user.o, "profile", JObj(MapSet(Field(user, "profile").o, k, v))))

\* variant: the write is skipped when the id is not in the table
WithEmailIfKnown(user, table) ==
    IF TableHas(table, StringOf(Field(user, "id")))
    THEN SetProfileField(user, "email", JStr(TableGet(table, StringOf(Field(user, "id")))))
    ELSE user
\* lines 134-136: the record with the looked-up email written into its profile
WithEmail(user, table) ==
    SetProfileField(user, "email", JStr(TableGet(table, StringOf(Field(user, "id")))))

\* whether lines 132-133 let the record be written
HasIdAndProfile(user) == IsString(Field(user, "id")) /\ IsMap(Field(user, "profile"))

\* lines 126-144: one record of the loop
UpdateUser ==
    /\ pc = "update"
    /\ di < Len(data)
    /\ LET user == data[di + 1]
       IN  IF HasIdAndProfile(user)
           THEN /\ data' = [data EXCEPT ![di + 1] = WithEmail(user, emails)]
                /\ mutations' = mutations + 1
           ELSE UNCHANGED <<data, mutations>>
    /\ di' = di + 1
    /\ UNCHANGED <<flagVars, fetchVars, inFiles, pc, idx, out, closeCalls, closeErr,
                   exitCode, open, events>>

\* lines 145-148: the collection is encoded into the entry created for users.json
EncodeUsers ==
    /\ pc = "update"
    /\ di = Len(data)
    /\ \E o \in {"ok", "writeFail"} :
         IF o = "writeFail" THEN
             /\ Exit1
             /\ out' = SetLastBody(out, Partial(Encode(data)))
             /\ UNCHANGED idx
         ELSE
             /\ out' = SetLastBody(out, Encode(data))
             /\ idx' = idx + 1
             /\ pc' = "loop"
             /\ UNCHANGED exitCode
    /\ UNCHANGED <<flagVars, fetchVars, inFiles, closeCalls, closeErr, open, data, di,
                   mutations, events>>

\* fetch-profile-pictures, lines 51-62 and 88-98: users.json is opened and decoded
DownloadBegin ==
    /\ pc = "loop"
    /\ mode = "pics"
    /\ idx < Len(inFiles)
    /\ inFiles[idx + 1].name = "users.json"
    /\ LET dec == Decode(inFiles[idx + 1].body)
       IN  \E o \in {"ok", "openFail"} :
             IF o # "ok" \/ dec.err THEN
                 Exit1 /\ UNCHANGED <<data, di>>
             ELSE
                 /\ data' = dec.data
                 /\ di' = 0
                 /\ pc' = "pictures"
                 /\ UNCHANGED exitCode
    /\ UNCHANGED <<flagVars, fetchVars, inFiles, idx, out, closeCalls, closeErr, open,
                   mutations, events>>

\* variant: the origin of the URL is not checked
SuitableAnyOrigin(v) ==
    /\ IsString(v)
    /\ HasSuffix(TokensOf(v), JpgSuffix) \/ HasSuffix(TokensOf(v), PngSuffix)
\* lines 105-107: the URL is one the command downloads
Suitable(v) ==
    /\ IsString(v)
    /\ HasPrefix(TokensOf(v), AvatarPrefix)
    /\ HasSuffix(TokensOf(v), JpgSuffix) \/ HasSuffix(TokensOf(v), PngSuffix)

\* lines 108-109
Extension(tokens) == Spell(<<".">> \o LastPart(tokens))

\* variant: the extension is always .jpg
PicFileNameFixed(userid, tokens) == "profile_pictures/" \o userid \o ".jpg"
\* line 124
PicFileName(userid, tokens) == "profile_pictures/" \o userid \o Extension(tokens)

\* http.NewRequest parses the URL: an escape that is no "%" and two hex digits
\* is an error
RequestBuilds(tokens) == \A i \in 1..Len(tokens) : tokens[i] # "%zz"

\* the log entry of a picture download: the URL requested, the record it is
\* for, the response and how writing it to the archive went
GetEvent(tokens, i, r, o) == [e |-> "get", url |-> tokens, user |-> i, r |-> r, io |-> o]

\* what httpClient.Do may give: a transport error, or a response of any status
PictureResponses ==
    {[kind |-> "neterr"]}
    \cup {[kind |-> "http", status |-> st, body |-> "img"] : st \in {200, 404}}

\* lines 100-145: one record of the loop
PictureUser ==
    /\ pc = "pictures"
    /\ di < Len(data)
    /\ LET user    == data[di + 1]
           profile == Field(user, "profile")
           image   == Field(profile, "image_original")
       IN  IF ~(HasIdAndProfile(user) /\ Suitable(image)) THEN
               /\ di' = di + 1
               /\ UNCHANGED <<pc, exitCode, out, data, mutations, events>>
           ELSE IF ~RequestBuilds(TokensOf(image)) THEN
               /\ Exit1
               /\ UNCHANGED <<out, data, di, mutations, events>>
           ELSE
               LET userid == StringOf(Field(user, "id"))
                   name   == PicFileName(userid, TokensOf(image))
               IN  \E r \in PictureResponses, o \in {"ok", "createFail", "copyFail"} :
                     /\ events' = Append(events, GetEvent(TokensOf(image), di + 1, r, o))
                     /\ IF r.kind = "neterr" THEN
                            /\ o = "ok"
                            /\ di' = di + 1
                            /\ UNCHANGED <<pc, exitCode, out, data, mutations>>
                        ELSE
                            /\ data' = [data EXCEPT ![di + 1] =
                                           SetProfileField(user, "image_path", JStr(name))]
                            /\ mutations' = mutations + 1
                            /\ IF o = "createFail" THEN
                                   Exit1 /\ UNCHANGED <<out, di>>
                               ELSE
                                   /\ out' = Put(out, File(name, FreshHeader,
                                                 IF o = "copyFail" THEN Partial(Raw(r.body))
                                                 ELSE Raw(r.body)))
                                   /\ di' = di + 1
                                   /\ UNCHANGED <<pc, exitCode>>
    /\ UNCHANGED <<flagVars, fetchVars, inFiles, idx, closeCalls, closeErr, open>>

\* lines 147-154: users.json is created in the output and the collection encoded
WriteUsers ==
    /\ pc = "pictures"
    /\ di = Len(data)
    /\ \E o \in {"ok", "createFail", "writeFail"} :
         IF o = "createFail" THEN
             Exit1 /\ UNCHANGED <<out, idx>>
         ELSE IF o = "writeFail" THEN
             /\ Exit1
             /\ out' = Put(out, File("users.json", FreshHeader, Partial(Encode(data))))
             /\ UNCHANGED idx
         ELSE
             /\ out' = Put(out, File("users.json", FreshHeader, Encode(data)))
             /\ idx' = idx + 1
             /\ pc' = "loop"
             /\ UNCHANGED exitCode
    /\ UNCHANGED <<flagVars, fetchVars, inFiles, closeCalls, closeErr, open, data, di,
                   mutations, events>>

\* variant: the loop ends after the first entry
LoopOverEarly == idx >= 1
\* whether the loop over r.File is over
LoopOver == idx = Len(inFiles)

\* lines 93-99 (79-85): the zip writer is closed, an error of Close is only
\* printed, the command returns nil and the deferred Close calls run
CloseWriter ==
    /\ pc = "loop"
    /\ LoopOver
    /\ closeCalls' = closeCalls + 1
    /\ closeErr' \in BOOLEAN
    /\ exitCode' = 0
    /\ open' = {}
    /\ pc' = "done"
    /\ UNCHANGED <<flagVars, fetchVars, inFiles, idx, out, data, di, mutations, events>>

Next ==
    \/ OpenArchives
    \/ CopyEntry
    \/ ProcessUsersBegin
    \/ FetchBegin
    \/ Attempt
    \/ AfterFetch
    \/ UpdateUser
    \/ EncodeUsers
    \/ DownloadBegin
    \/ PictureUser
    \/ WriteUsers
    \/ CloseWriter

Spec == Init /\ [][Next]_vars

----------------------------------------------------------------------------
(* Reading the log *)

IsReq(x) == x.e = "req"

IsResp(x) == x.e = "resp"

IsSleep(x, why) == x.e = "sleep" /\ x.why = why

\* a response that was a complete, successful page
IsPage(x) ==
    /\ x.e = "resp"
    /\ x.r.kind = "http"
    /\ x.r.status = 200
    /\ x.r.body.valid
    /\ x.r.body.ok

Is429(x) == x.e = "resp" /\ x.r.kind = "http" /\ x.r.status = 429

\* the responses received, in order
Received(log) ==
    LET resps == SelectSeq(log, IsResp)
    IN  [i \in 1..Len(resps) |-> resps[i].r]

\* the sleeps performed, in order
Sleeps(log) == SelectSeq(log, LAMBDA x : x.e = "sleep")

\* the next_cursor of the last successful page of a log, "" when there is none
RECURSIVE LastCursor(_)
LastCursor(log) ==
    IF log = <<>> THEN ""
    ELSE IF IsPage(log[Len(log)]) THEN log[Len(log)].r.body.next
    ELSE LastCursor(SubSeq(log, 1, Len(log) - 1))

\* the member objects of all successful pages of a log, in request order
RECURSIVE AllMembers(_)
AllMembers(log) ==
    IF log = <<>> THEN <<>>
    ELSE AllMembers(SubSeq(log, 1, Len(log) - 1))
         \o (IF IsPage(log[Len(log)]) THEN log[Len(log)].r.body.members ELSE <<>>)

OkPage(members, next) == Http(200, <<>>, Body(TRUE, TRUE, members, next))

----------------------------------------------------------------------------
(* Claims about fetchUserEmails, checked under SpecFetch *)

\* C5: page requests are issued one at a time (each request has its response
\* before the next is issued); the first request carries no cursor; every
\* later request carries the next_cursor of the latest successful page; after
\* a successful page with an empty next_cursor the call has returned and no
\* request follows; pages answering cursors "A" then "" make exactly two
\* requests.
C5_Pagination ==
    /\ \A i \in 1..Len(events) :
         IsReq(events[i]) =>
            /\ i < Len(events) /\ IsResp(events[i + 1])
            /\ events[i].cursor = LastCursor(SubSeq(events, 1, i - 1))
    /\ Requests(events) # <<>> => Requests(events)[1].cursor = ""
    /\ \A i \in 1..Len(events) :
         (IsPage(events[i]) /\ events[i].r.body.next = "") =>
            /\ i = Len(events)
            /\ pc = "fetched" /\ fetchErr = ""
    /\ \A m1, m2 \in MemberLists :
         Received(events) = <<OkPage(m1, "A"), OkPage(m2, "")>> =>
            /\ Len(Requests(events)) = 2
            /\ Requests(events)[2].cursor = "A"
            /\ pc = "fetched"

\* C5 witness: two pages, cursors "A" then "", two requests, returned
C5_Witness ==
    /\ mode = "client"
    /\ pc = "fetched"
    /\ Len(Requests(events)) = 2
    /\ \E m1, m2 \in MemberLists :
         Received(events) = <<OkPage(m1, "A"), OkPage(m2, "")>>

\* the seconds a Retry-After header of the pool asks for
HeaderSeconds(ra) ==
    CASE ra = <<"2">> -> 2
      [] ra = <<"1", "0">> -> 10
      [] ra = <<"0">> -> 0
      [] OTHER -> 1

\* C6: every 429 response is followed by one sleep of the seconds its
\* Retry-After header gives (1 when the header is absent or no integer), the
\* call does not return, and the next request repeats the cursor and limit of
\* the one that was answered 429, however many 429 came before; a 429 with
\* Retry-After: 2 followed by a final page gives one sleep, of 2 seconds,
\* and the table of that page's members.
C6_RateLimit ==
    /\ \A i \in 1..Len(events) :
         Is429(events[i]) =>
            /\ i < Len(events)
            /\ IsSleep(events[i + 1], "rate")
            /\ events[i + 1].secs = HeaderSeconds(events[i].r.retryAfter)
            /\ IF i + 1 = Len(events) THEN pc = "request"
               ELSE /\ IsReq(events[i + 2])
                    /\ events[i + 2].cursor = events[i - 1].cursor
                    /\ events[i + 2].limit = events[i - 1].limit
    /\ Received(events) = <<Http(429, <<"2">>, NoBody), OkPage(<<Member("U1", "a@x")>>, "")>> =>
            /\ Sleeps(events) = <<SleepEvent("rate", 2)>>
            /\ events[3] = SleepEvent("rate", 2) /\ IsReq(events[4])
            /\ pc = "fetched" /\ fetchErr = ""
            /\ emails = {Member("U1", "a@x")}

\* C6 witness: a 429 with Retry-After: 2, then the final page
C6_Witness ==
    /\ mode = "client"
    /\ pc = "fetched"
    /\ Received(events) = <<Http(429, <<"2">>, NoBody), OkPage(<<Member("U1", "a@x")>>, "")>>

\* the email of the latest member object of ms with identifier id
RECURSIVE LatestEmail(_, _)
LatestEmail(ms, id) ==
    IF ms = <<>> THEN ""
    ELSE IF ms[Len(ms)].id = id THEN ms[Len(ms)].email
    ELSE LatestEmail(SubSeq(ms, 1, Len(ms) - 1), id)

\* the email of the latest member object of ms with identifier id and a
\* non-empty email, "" when there is none
RECURSIVE LatestNonEmptyEmail(_, _)
LatestNonEmptyEmail(ms, id) ==
    IF ms = <<>> THEN ""
    ELSE IF ms[Len(ms)].id = id /\ ms[Len(ms)].email # "" THEN ms[Len(ms)].email
    ELSE LatestNonEmptyEmail(SubSeq(ms, 1, Len(ms) - 1), id)

Occurrences(ms, id) == Cardinality({i \in 1..Len(ms) : ms[i].id = id})

MemberIds(ms) == {ms[i].id : i \in 1..Len(ms)}

\* C9 as stated: the returned table has no empty identifier and no empty
\* email, and for an identifier that occurs in more than one member object it
\* holds the email of the latest occurrence.
C9_Original ==
    (pc = "fetched" /\ fetchErr = "") =>
        /\ \A e \in emails : e.id # "" /\ e.email # ""
        /\ \A id \in MemberIds(AllMembers(events)) \ {""} :
             Occurrences(AllMembers(events), id) > 1 =>
                TableGet(emails, id) = LatestEmail(AllMembers(events), id)

\* C9 amended: the table has no empty identifier and no empty email, it
\* accumulates over all pages, and for every identifier it holds the email
\* of the latest occurrence whose email is not empty (no entry when every
\* occurrence has an empty email).
C9_Table ==
    LET ms == AllMembers(events)
        expected == {Member(id, LatestNonEmptyEmail(ms, id)) :
                        id \in {x \in MemberIds(ms) \ {""} : LatestNonEmptyEmail(ms, x) # ""}}
    IN  /\ \A e \in res : e.id # "" /\ e.email # ""
        /\ pc \in {"request", "fetched"} => res = expected
        /\ (pc = "fetched" /\ fetchErr = "") => emails = expected

\* C9 witness: a returned table for which an identifier occurred on two
\* pages with different non-empty emails, and another occurred last with an
\* empty email
C9_Witness ==
    /\ mode = "client"
    /\ pc = "fetched" /\ fetchErr = ""
    /\ Len(SelectSeq(events, IsPage)) >= 2
    /\ Occurrences(AllMembers(events), "U1") > 2
    /\ LatestEmail(AllMembers(events), "U1") = ""
    /\ TableGet(emails, "U1") = "b@x"

\* C10: a pacing sleep lasts 1 second and happens only with pacing enabled,
\* directly after a successful page with a non-empty cursor and directly
\* before the first request of the next page; with pacing enabled every such
\* page is followed by exactly one; so none precedes the first request or
\* follows the last page, and with pacing disabled there is none at all.
C10_Pacing ==
    /\ \A i \in 1..Len(events) :
         IsSleep(events[i], "pace") =>
            /\ usersPace1RPS
            /\ events[i].secs = 1
            /\ i > 1 /\ IsPage(events[i - 1]) /\ events[i - 1].r.body.next # ""
            /\ i < Len(events) => IsReq(events[i + 1])
    /\ \A i \in 1..Len(events) :
         (IsPage(events[i]) /\ events[i].r.body.next # "") =>
            IF usersPace1RPS
            THEN i < Len(events) /\ IsSleep(events[i + 1], "pace")
            ELSE i < Len(events) => IsReq(events[i + 1])
    /\ ~usersPace1RPS => \A i \in 1..Len(events) : ~IsSleep(events[i], "pace")

\* C10 witness: with pacing enabled, three pages fetched and returned
C10_Witness ==
    /\ mode = "client"
    /\ usersPace1RPS
    /\ pc = "fetched" /\ fetchErr = ""
    /\ Len(SelectSeq(events, IsPage)) = 3
    /\ Len(SelectSeq(events, LAMBDA x : IsSleep(x, "pace"))) = 2

----------------------------------------------------------------------------
(* Reading a run *)

IsUsers(f) == f.name = "users.json"

NotUsers(f) == f.name # "users.json"

HasUsers == \E i \in 1..Len(inFiles) : IsUsers(inFiles[i])

\* the position of users.json in the input (names are unique in the archives)
UsersAt == CHOOSE i \in 1..Len(inFiles) : IsUsers(inFiles[i])

\* users.json has been handled and the loop has moved on
UsersDone == HasUsers /\ pc \in {"loop", "done"} /\ idx >= UsersAt

\* the records of the input users.json, as the JSON text gives them
InDoc == inFiles[UsersAt].body.v

\* the records of the rewritten users.json
OutDoc == SelectSeq(out, IsUsers)[1].body.v

\* a JSON value with the keys of every object in key order and nothing else changed
RECURSIVE Canon(_)
RECURSIVE CanonObject(_)
CanonObject(fields) ==
    IF fields = <<>> THEN <<>>
    ELSE LET n == Len(fields)
         IN  MapSet(CanonObject(SubSeq(fields, 1, n - 1)), fields[n].k, Canon(fields[n].v))

Canon(v) == IF v.t = "object" THEN JObj(CanonObject(v.o)) ELSE v

\* a is a subsequence of b
RECURSIVE IsSubseq(_, _)
IsSubseq(a, b) ==
    IF a = <<>> THEN TRUE
    ELSE IF b = <<>> THEN FALSE
    ELSE IF Head(a) = Head(b) THEN IsSubseq(Tail(a), Tail(b))
    ELSE IsSubseq(a, Tail(b))

\* the picture downloads that got a response
GotResponse(x) == x.e = "get" /\ x.r.kind = "http"

\* the entries the run added for pictures
IsPicture(f) == f.name # "users.json" /\ f.header = FreshHeader

\* the name the picture of a record is to be stored under
ExpectedPicName(user) ==
    "profile_pictures/" \o Field(user, "id").s
    \o (IF HasSuffix(Field(Field(user, "profile"), "image_original").u, JpgSuffix)
        THEN ".jpg" ELSE ".png")

\* a record whose image_original is a string of the avatar origin ending in
\* .jpg or .png
WantsPicture(user) ==
    /\ Field(user, "id").t = "string"
    /\ Field(user, "profile").t = "object"
    /\ LET image == Field(Field(user, "profile"), "image_original")
       IN  /\ image.t = "string"
           /\ SubSeq(image.u, 1, 7) = AvatarPrefix
           /\ image.u[Len(image.u) - 1] = "."
           /\ image.u[Len(image.u)] \in {"jpg", "png"}

----------------------------------------------------------------------------
(* Claims about the two commands, checked under Spec *)

\* C1: when a run has completed, the input entries other than users.json are
\* in the output with the same name, header and bytes and in the same order
\* (in fetch-emails they are all the output holds besides users.json); when
\* the input has no users.json the output entries are the input entries, no
\* remote request was issued and the exit status is 0.
C1_PassThrough ==
    pc = "done" =>
        /\ IsSubseq(SelectSeq(inFiles, NotUsers), out)
        /\ mode = "emails" => SelectSeq(out, NotUsers) = SelectSeq(inFiles, NotUsers)
        /\ mode = "pics" =>
              SelectSeq(out, LAMBDA f : ~IsUsers(f) /\ ~IsPicture(f)) = SelectSeq(inFiles, NotUsers)
        /\ ~HasUsers => out = inFiles /\ events = <<>> /\ exitCode = 0

\* C1 witness: a completed fetch-profile-pictures run that injected a picture
\* between two copied entries
C1_Witness ==
    /\ pc = "done"
    /\ mode = "pics"
    /\ Len(SelectSeq(inFiles, NotUsers)) = 2
    /\ Len(out) > Len(inFiles)
    /\ out[1] = inFiles[1]
    /\ out[Len(out)] = inFiles[Len(inFiles)]

\* C2: in fetch-emails, every record processed that has a string id and a
\* profile map has profile.email: the table's value when the id is a key of
\* the table, the empty string when it is not; the rewritten users.json
\* holds these values.
C2_Emails ==
    (mode = "emails" /\ pc \in {"update", "loop", "done"} /\ HasUsers) =>
        LET orig == Decode(inFiles[UsersAt].body).data
            Good(user) ==
                /\ MapHas(Field(user, "profile").o, "email")
                /\ Field(Field(user, "profile"), "email").t = "string"
                /\ LET got == Field(Field(user, "profile"), "email").s
                       id  == Field(user, "id").s
                   IN  IF \E e \in emails : e.id = id
                       THEN \E e \in emails : e.id = id /\ e.email = got
                       ELSE got = ""
        IN  /\ \A i \in 1..Len(orig) :
                 (i <= di /\ Field(orig[i], "id").t = "string"
                          /\ Field(orig[i], "profile").t = "object") => Good(data[i])
            /\ UsersDone =>
                 \A i \in 1..Len(orig) :
                    (Field(orig[i], "id").t = "string"
                       /\ Field(orig[i], "profile").t = "object") => Good(OutDoc[i])

\* C2 witness: a rewritten users.json with a record whose id is in the table
\* and a record whose id is not
C2_Witness ==
    /\ mode = "emails"
    /\ UsersDone
    /\ \E i, j \in 1..Len(OutDoc) :
         /\ Field(OutDoc[i], "id") = JStr("U1")
         /\ Field(Field(OutDoc[i], "profile"), "email") = JStr("c@x")
         /\ Field(OutDoc[j], "id") = JStr("U9")
         /\ Field(Field(OutDoc[j], "profile"), "email") = JStr("")
         /\ ~TableHas(emails, "U9")

\* C3 as stated: in fetch-profile-pictures, for every record with a suitable
\* image_original whose GET yielded a response, while the run has not
\* aborted, the output holds an entry named profile_pictures/<id><extension>
\* with the response body and image_path is that name; every other record
\* processed is unmodified and the pictures are the only entries added.
C3_Original ==
    (mode = "pics" /\ pc \in {"pictures", "loop", "done"} /\ HasUsers /\ idx >= UsersAt - 1) =>
        LET orig == Decode(inFiles[UsersAt].body).data
        IN  /\ \A k \in 1..Len(events) :
                 GotResponse(events[k]) =>
                    LET name == ExpectedPicName(orig[events[k].user])
                    IN  /\ \E j \in 1..Len(out) :
                              out[j] = File(name, FreshHeader, Raw(events[k].r.body))
                        /\ Field(Field(data[events[k].user], "profile"), "image_path") = JStr(name)
            /\ \A i \in 1..Len(data) :
                 (i <= di /\ ~WantsPicture(orig[i])) => data[i] = orig[i]
            /\ Len(SelectSeq(out, IsPicture)) = Len(SelectSeq(events, GotResponse))

\* What fetch-profile-pictures does with a response: for every record with a
\* suitable image_original whose GET yielded a response, image_path is set to
\* profile_pictures/<id><extension>;
\* if the entry of that name cannot be created the run aborts with status 1,
\* otherwise the output gains one new entry of that name, which holds the
\* response body when the body was streamed without error and is left
\* broken off when streaming failed; a record whose image_original is absent,
\* of another origin or of another extension is left unmodified and adds no
\* entry.
PicturesAsCoded ==
    (mode = "pics" /\ HasUsers /\ data # <<>>) =>
        LET orig == Decode(inFiles[UsersAt].body).data
            made == SelectSeq(events, LAMBDA x : GotResponse(x) /\ x.io # "createFail")
            pics == SelectSeq(out, IsPicture)
        IN  /\ \A k \in 1..Len(events) :
                 /\ events[k].e = "get"
                 /\ WantsPicture(orig[events[k].user])
                 /\ GotResponse(events[k]) =>
                       /\ Field(Field(data[events[k].user], "profile"), "image_path")
                             = JStr(ExpectedPicName(orig[events[k].user]))
                       /\ events[k].io = "createFail" =>
                             pc = "exited" /\ exitCode = 1 /\ k = Len(events)
            /\ Len(pics) = Len(made)
            /\ \A k \in 1..Len(made) :
                 pics[k] = File(ExpectedPicName(orig[made[k].user]), FreshHeader,
                                IF made[k].io = "ok" THEN Raw(made[k].r.body)
                                ELSE Partial(Raw(made[k].r.body)))
            /\ \A i \in 1..Len(data) :
                 ~WantsPicture(orig[i]) => data[i] = orig[i]

\* a completed run that stored the picture of U1 as
\* profile_pictures/U1.jpg and left a record with a URL of another origin as
\* it was
PictureStored ==
    /\ mode = "pics"
    /\ pc = "done"
    /\ \E j \in 1..Len(out) : out[j] = File("profile_pictures/U1.jpg", FreshHeader, Raw("img"))
    /\ \E i, k \in 1..Len(OutDoc) :
         /\ Field(Field(OutDoc[i], "profile"), "image_path") = JStr("profile_pictures/U1.jpg")
         /\ Field(OutDoc[k], "id") = JStr("U3")
         /\ OutDoc[k] = Canon(InDoc[k])

\* two records agree in every field but profile[key]
SameExcept(a, b, key) ==
    /\ a.t = b.t
    /\ a.t = "object" =>
         /\ \A i \in 1..Len(KeyOrder) :
              KeyOrder[i] # "profile" =>
                 /\ MapHas(a.o, KeyOrder[i]) = MapHas(b.o, KeyOrder[i])
                 /\ Field(a, KeyOrder[i]) = Field(b, KeyOrder[i])
         /\ MapHas(a.o, "profile") = MapHas(b.o, "profile")
         /\ Field(a, "profile").t = Field(b, "profile").t
         /\ IF Field(a, "profile").t # "object"
            THEN Field(a, "profile") = Field(b, "profile")
            ELSE \A i \in 1..Len(KeyOrder) :
                    KeyOrder[i] # key =>
                       /\ MapHas(Field(a, "profile").o, KeyOrder[i])
                             = MapHas(Field(b, "profile").o, KeyOrder[i])
                       /\ Field(Field(a, "profile"), KeyOrder[i])
                             = Field(Field(b, "profile"), KeyOrder[i])

\* C4 as stated: the rewritten users.json holds the records of the input in
\* the same order, every field other than profile.email (fetch-emails) or
\* profile.image_path (fetch-profile-pictures) has the value the input gives
\* it, and a record without a string id or without a profile map is written
\* as it was read.
C4_Original ==
    UsersDone =>
        /\ Len(OutDoc) = Len(InDoc)
        /\ \A i \in 1..Len(InDoc) :
             /\ SameExcept(Canon(InDoc[i]), OutDoc[i],
                           IF mode = "emails" THEN "email" ELSE "image_path")
             /\ ~HasIdAndProfile(Canon(InDoc[i])) => OutDoc[i] = Canon(InDoc[i])

\* a completed fetch-profile-pictures run whose input gave "big" as
\* 18014398509481992 and whose rewritten users.json gives it as
\* 18014398509481990
LongNumberRewritten ==
    /\ mode = "pics"
    /\ UsersDone
    /\ pc = "done"
    /\ \E i \in 1..Len(InDoc) :
         /\ Field(Canon(InDoc[i]), "big") = JNum(2^24, 8)
         /\ Field(OutDoc[i], "big") = JNum(2^24, 6)

\* C7: w.Close() is called at most once, and only as the step that ends the
\* run: when it has been called every input entry has been processed, the
\* rewritten users.json is complete and every picture entry is written; a
\* run that exited on a fatal error has not called it; once it has been
\* called nothing is written to the output.
C7_Finalize ==
    /\ [](/\ closeCalls <= 1
          /\ closeCalls = 1 <=> pc = "done"
          /\ pc = "exited" => closeCalls = 0 /\ exitCode = 1
          /\ pc = "done" =>
                /\ idx = Len(inFiles)
                /\ Len(out) >= Len(inFiles)
                /\ HasUsers => /\ Len(SelectSeq(out, IsUsers)) = 1
                               /\ SelectSeq(out, IsUsers)[1].body.kind = "json"
                /\ Len(SelectSeq(out, IsPicture))
                      = Len(SelectSeq(events, LAMBDA x : GotResponse(x) /\ x.io # "createFail")))
    /\ [][closeCalls >= 1 => out' = out /\ closeCalls' = closeCalls]_vars

\* C7 witness: a completed fetch-profile-pictures run whose output holds a
\* picture entry and the rewritten users.json
C7_Witness ==
    /\ pc = "done"
    /\ closeCalls = 1
    /\ mode = "pics"
    /\ Len(SelectSeq(out, IsPicture)) >= 1
    /\ Len(SelectSeq(out, IsUsers)) = 1

\* the entry created for users.json still has no content
UsersEntryEmpty ==
    /\ Len(SelectSeq(out, IsUsers)) = 1
    /\ SelectSeq(out, IsUsers)[1].body = Empty

\* C8: in fetch-emails, while the fetch has not returned no record has been
\* mutated and the users.json entry has no content; a record is mutated or
\* content is written only after a fetch that ended with a successful page
\* with an empty cursor; a failed fetch leaves every record as decoded; and
\* from the first mutation on no request is issued.
C8_FetchFirst ==
    /\ [](mode = "emails" =>
            /\ pc \in {"fetchStart", "request", "fetched"} =>
                  /\ mutations = 0
                  /\ data = Decode(inFiles[UsersAt].body).data
                  /\ UsersEntryEmpty
            /\ fetchErr # "" =>
                  /\ mutations = 0
                  /\ data = Decode(inFiles[UsersAt].body).data
                  /\ UsersEntryEmpty
            /\ (mutations > 0 \/ (HasUsers /\ Len(SelectSeq(out, IsUsers)) = 1 /\ ~UsersEntryEmpty)) =>
                  /\ fetchErr = ""
                  /\ events # <<>>
                  /\ IsPage(events[Len(events)])
                  /\ events[Len(events)].r.body.next = ""
                  /\ emails = res)
    /\ [][(mode = "emails" /\ (mutations > 0 \/ mutations' > 0)) => events' = events]_vars

\* C8 witness: a fetch-emails run that fetched two pages and then mutated a record
C8_Witness ==
    /\ mode = "emails"
    /\ mutations > 0
    /\ Len(SelectSeq(events, IsPage)) = 2
    /\ pc = "done"

----------------------------------------------------------------------------
(* Claims about the ways a run ends, checked under Spec *)

\* C11 as stated: a run that met a fatal condition has ended with a non-zero
\* status, and a run ends with status 0 only if w.Close() was called and
\* returned no error.
C11_Original ==
    /\ pc = "exited" => exitCode = 1
    /\ exitCode = 0 => closeCalls = 1 /\ ~closeErr

\* How a run ends: with status 1 without w.Close() being called when opening
\* an archive, opening, creating or copying an entry or processing users.json
\* failed; with status 0 once w.Close() was called, whether or not it returned
\* an error.
ExitStatusAsCoded ==
    /\ exitCode \in {-1, 0, 1}
    /\ pc = "exited" <=> exitCode = 1
    /\ pc = "done" <=> exitCode = 0
    /\ exitCode = 1 => closeCalls = 0
    /\ exitCode = 0 => closeCalls = 1
    /\ closeErr => exitCode = 0

----------------------------------------------------------------------------
(* Claims about the retry loop of fetchUserEmails, checked under SpecRetry *)

\* the position in a log of the last page that has a successor, 0 when none
RECURSIVE PageStart(_)
PageStart(log) ==
    IF log = <<>> THEN 0
    ELSE IF IsPage(log[Len(log)]) /\ log[Len(log)].r.body.next # "" THEN Len(log)
    ELSE PageStart(SubSeq(log, 1, Len(log) - 1))

\* the requests a log holds for the page that was being fetched at its end
AttemptsOfPage(log) ==
    Len(SelectSeq(SubSeq(log, PageStart(log) + 1, Len(log)), IsReq))

\* a response that is answered with the exponential backoff
IsFailure(x) ==
    /\ x.e = "resp"
    /\ x.r.kind = "neterr" \/ x.r.status >= 500

IsBackoff(x) == x.e = "sleep" /\ x.why \in {"net", "server"}

\* C12: every network failure and every response with status >= 500 is
\* followed by one sleep of 2^min(n, 3) seconds, n being the number of
\* requests already made for the same page before the one that failed
\* (whatever they were answered with), so the sleep lasts 1, 2, 4 or 8
\* seconds; such sleeps follow nothing else; after the sleep the call has not
\* returned, however many attempts were made, and the next request repeats
\* the cursor and limit of the one that failed.
C12_Backoff ==
    /\ \A i \in 1..Len(events) :
         IsFailure(events[i]) =>
            /\ i < Len(events)
            /\ IsBackoff(events[i + 1])
            /\ events[i + 1].why = (IF events[i].r.kind = "neterr" THEN "net" ELSE "server")
    /\ \A i \in 1..Len(events) :
         IsBackoff(events[i]) =>
            /\ i > 2 /\ IsFailure(events[i - 1]) /\ IsReq(events[i - 2])
            /\ events[i].secs = 2 ^ Min(AttemptsOfPage(SubSeq(events, 1, i - 3)), 3)
            /\ events[i].secs \in {1, 2, 4, 8}
            /\ IF i = Len(events) THEN pc = "request"
               ELSE /\ IsReq(events[i + 1])
                    /\ events[i + 1].cursor = events[i - 2].cursor
                    /\ events[i + 1].limit = events[i - 2].limit

\* C12 witness: five attempts for one page, failing in every class, slept
\* 1, 2 (Retry-After), 4, 8 and 8 seconds, and the call is about to try again
C12_Witness ==
    /\ mode = "retries"
    /\ pc = "request"
    /\ Sleeps(events) = <<SleepEvent("net", 1), SleepEvent("rate", 2), SleepEvent("server", 4),
                          SleepEvent("net", 8), SleepEvent("server", 8)>>

\* a failure on the second page, after two failures on the first, is slept
\* for 1 second again
BackoffRestarts ==
    /\ mode = "retries"
    /\ Len(events) >= 2
    /\ events[Len(events)] = SleepEvent("net", 1)
    /\ Len(SelectSeq(events, IsBackoff)) = 3
    /\ PageStart(events) > 0

\* a response whose status is neither 200 nor 429 and is below 500
IsRefusal(x) ==
    /\ x.e = "resp"
    /\ x.r.kind = "http"
    /\ x.r.status \notin {200, 429}
    /\ x.r.status < 500

\* C13: a response with a status that is neither 200 nor 429 and is below
\* 500 is the last entry of the log (no sleep and no request follows it): the
\* call has returned with an error and with no table, whatever earlier pages
\* had put into the table.
C13_Refusal ==
    \A i \in 1..Len(events) :
        IsRefusal(events[i]) =>
            /\ i = Len(events)
            /\ pc = "fetched"
            /\ fetchErr = "http"
            /\ emails = {}

\* C13 witness: a 403 on the second page, after a first page that put an
\* entry into the table and after a retried failure
C13_Witness ==
    /\ mode = "retries"
    /\ pc = "fetched"
    /\ res # {}
    /\ Received(events) = <<OkPage(<<Member("U1", "a@x")>>, "A"), NetErr, Http(403, <<>>, NoBody)>>

----------------------------------------------------------------------------
(* Claims about the failures of a run, checked under Spec *)

\* a 200 response whose body decodes and does not carry ok = true
IsNotOk(x) ==
    /\ x.e = "resp"
    /\ x.r.kind = "http"
    /\ x.r.status = 200
    /\ x.r.body.valid
    /\ ~x.r.body.ok

\* C14: in fetch-emails a 200 response without ok = true is the last entry
\* of the log (no retry, no sleep, no further page): fetchUserEmails has
\* returned an error and no table, no record has been changed, the users.json
\* entry has no content, w.Close() is never called, and the only step the run
\* takes after the return is the exit with status 1.
C14_NotOk ==
    /\ [](mode = "emails" =>
            \A i \in 1..Len(events) :
                IsNotOk(events[i]) =>
                    /\ i = Len(events)
                    /\ pc \in {"fetched", "exited"}
                    /\ fetchErr = "notok"
                    /\ emails = {}
                    /\ mutations = 0
                    /\ data = Decode(inFiles[UsersAt].body).data
                    /\ UsersEntryEmpty
                    /\ closeCalls = 0
                    /\ exitCode = (IF pc = "exited" THEN 1 ELSE -1))
    /\ [][(mode = "emails" /\ pc = "fetched" /\ fetchErr = "notok") =>
             (pc' = "exited" /\ exitCode' = 1 /\ out' = out /\ data' = data)]_vars

\* C14 witness: a fetch-emails run that got a page, then a 200 without
\* ok = true, and has exited with status 1
C14_Witness ==
    /\ mode = "emails"
    /\ pc = "exited"
    /\ exitCode = 1
    /\ fetchErr = "notok"
    /\ Len(SelectSeq(events, IsPage)) = 1
    /\ IsNotOk(events[Len(events)])
    /\ Len(data) > 0

\* a response of one of the three classes that are retried
IsTransient(x) == IsFailure(x) \/ Is429(x)

\* C15: a network failure, a 429 and a response with status >= 500 are
\* always followed by a sleep and never by the return of the call, so that a
\* call that has returned did so on a response of another kind: with the
\* table after a last page, with an error after a refused status, a body
\* that does not decode or a body without ok = true; and when the remote end
\* stops failing and stops handing out successor pages, the call returns.
C15_Returns ==
    /\ [](\A i \in 1..Len(events) :
             IsTransient(events[i]) => i < Len(events) /\ events[i + 1].e = "sleep")
    /\ [](pc = "fetched" =>
             /\ events # <<>>
             /\ IsResp(events[Len(events)])
             /\ ~IsTransient(events[Len(events)])
             /\ fetchErr \in {"", "http", "json", "notok"}
             /\ fetchErr = "" <=>
                   (IsPage(events[Len(events)]) /\ events[Len(events)].r.body.next = "")
             /\ fetchErr = "http" <=> IsRefusal(events[Len(events)])
             /\ fetchErr = "notok" <=> IsNotOk(events[Len(events)]))
    /\ <>(pc = "fetched")

\* C15 witness: the call returned the table after five failures of all three
\* classes on two pages
C15_Witness ==
    /\ mode = "retries"
    /\ pc = "fetched"
    /\ fetchErr = ""
    /\ emails = {Member("U1", "a@x"), Member("U2", "b@x")}
    /\ Len(SelectSeq(events, IsTransient)) = MaxRetryRequests - 1
    /\ \E i, j, k \in 1..Len(events) :
         /\ Is429(events[i])
         /\ events[j].e = "resp" /\ events[j].r.kind = "neterr"
         /\ events[k].e = "resp" /\ events[k].r.kind = "http" /\ events[k].r.status >= 500

\* a picture download that failed: no response, or a response whose body
\* could not be streamed into the output archive
TransportFailed(x) == x.e = "get" /\ x.r.kind = "neterr"

StreamFailed(x) == x.e = "get" /\ x.r.kind = "http" /\ x.io = "copyFail"

\* C16 as stated: in fetch-profile-pictures, after a picture download that
\* failed at transport level or while its body was streamed into the output,
\* the record is as it was decoded (no image_path added) and the loop has
\* gone on past that record (the failure has not aborted the run).
C16_Original ==
    (mode = "pics" /\ HasUsers /\ data # <<>>) =>
        LET orig == Decode(inFiles[UsersAt].body).data
        IN  \A k \in 1..Len(events) :
                (TransportFailed(events[k]) \/ StreamFailed(events[k])) =>
                    /\ data[events[k].user] = orig[events[k].user]
                    /\ di >= events[k].user

\* What a failed download leaves behind: after a transport failure the record
\* is as decoded; after a failure of streaming the
\* record carries image_path and the output holds the entry of that name,
\* broken off; in both cases the loop has gone on to the next record.
FailedDownloadAsCoded ==
    (mode = "pics" /\ HasUsers /\ data # <<>>) =>
        LET orig == Decode(inFiles[UsersAt].body).data
        IN  \A k \in 1..Len(events) :
                /\ TransportFailed(events[k]) =>
                      /\ data[events[k].user] = orig[events[k].user]
                      /\ di >= events[k].user
                /\ StreamFailed(events[k]) =>
                      /\ Field(Field(data[events[k].user], "profile"), "image_path")
                            = JStr(ExpectedPicName(orig[events[k].user]))
                      /\ di >= events[k].user
                      /\ \E j \in 1..Len(out) :
                            out[j] = File(ExpectedPicName(orig[events[k].user]), FreshHeader,
                                          Partial(Raw(events[k].r.body)))

\* the run ended while the loop over the records had records left
ExitedInRecords == pc = "exited" /\ di < Len(data)

\* C17 as stated: no run ends inside the loop over the records; a run that
\* ended with records left ended before the loop began, on a failure of the
\* whole users.json entry (in fetch-emails, the fetch of the table).
C17_Original ==
    ExitedInRecords => (mode = "emails" /\ di = 0 /\ mutations = 0 /\ fetchErr # "")

\* Which records end a run: in fetch-emails none; in fetch-profile-pictures
\* a record with a suitable image_original whose URL http.NewRequest rejects,
\* and a record whose picture entry w.Create could not create; a record
\* without id, without profile, with an unsuitable image_original or with a
\* download that failed at transport level is passed over.
RecordAbortsAsCoded ==
    /\ (ExitedInRecords /\ mode = "emails") => (di = 0 /\ mutations = 0 /\ fetchErr # "")
    /\ (ExitedInRecords /\ mode = "pics") =>
          LET user == Decode(inFiles[UsersAt].body).data[di + 1]
          IN  /\ WantsPicture(user)
              /\ \/ \E i \in 1..Len(Field(Field(user, "profile"), "image_original").u) :
                       Field(Field(user, "profile"), "image_original").u[i] = "%zz"
                 \/ /\ events # <<>>
                    /\ GotResponse(events[Len(events)])
                    /\ events[Len(events)].user = di + 1
                    /\ events[Len(events)].io = "createFail"

\* C18 as stated: when the process has terminated, with whatever status, the
\* input archive reader and the output file have been closed.
C18_Original == exitCode # -1 => open = {}

\* Which handles a terminated process has closed: all of them after a run
\* that returned (the deferred Close calls ran), none of those it had
\* acquired after os.Exit(1).
HandlesAsCoded ==
    /\ pc = "done" => open = {}
    /\ pc = "exited" =>
          \/ open = {} /\ idx = 0 /\ out = <<>>
          \/ open = {"r"} /\ idx = 0 /\ out = <<>>
          \/ open = {"r", "f"}
    /\ pc \notin {"start", "done", "exited"} => open = {"r", "f"}

----------------------------------------------------------------------------
(* Claims about the order of the phases of a run, checked under Spec *)

\* the input users.json does not decode into a record collection
UsersUndecodable == HasUsers /\ Decode(inFiles[UsersAt].body).err

\* the input users.json decodes into a collection without records
UsersEmpty ==
    /\ HasUsers
    /\ ~Decode(inFiles[UsersAt].body).err
    /\ Decode(inFiles[UsersAt].body).data = <<>>

\* the fetch of the table ran to its end: the last thing in the log is a last
\* page, or the response that made it fail
FetchCompleted ==
    /\ events # <<>>
    /\ IsResp(events[Len(events)])
    /\ IF fetchErr = ""
       THEN IsPage(events[Len(events)]) /\ events[Len(events)].r.body.next = ""
       ELSE ~IsPage(events[Len(events)])

\* C19: in fetch-emails, a users.json that does not decode ends the run at
\* that entry with no request ever issued; a users.json that decodes into an
\* empty collection is fetched for like any other and ends the run only once
\* the fetch has run to its end, no record loop or encoding taking place;
\* records are changed only after a fetch that succeeded on a non-empty
\* collection, and content is encoded only after the last record was
\* handled.  In fetch-profile-pictures an empty collection ends no run: it is
\* written back as an empty collection with no download attempted.
C19_Phases ==
    /\ (mode = "emails" /\ UsersUndecodable) =>
          /\ events = <<>>
          /\ pc \in {"start", "loop", "exited"}
          /\ idx < UsersAt
    /\ (mode = "emails" /\ UsersEmpty) =>
          /\ pc \notin {"update", "done"}
          /\ idx < UsersAt
          /\ mutations = 0
          /\ (pc = "exited" /\ Len(SelectSeq(out, IsUsers)) = 1) => FetchCompleted
    /\ (mode = "emails" /\ (pc = "update" \/ mutations > 0)) =>
          /\ FetchCompleted /\ fetchErr = ""
          /\ Len(data) > 0
    /\ (mode = "emails" /\ Len(SelectSeq(out, IsUsers)) = 1 /\ ~UsersEntryEmpty) =>
          /\ di = Len(data)
          /\ FetchCompleted /\ fetchErr = ""
    /\ (mode = "pics" /\ UsersEmpty) =>
          /\ events = <<>>
          /\ mutations = 0
          /\ UsersDone => SelectSeq(out, IsUsers) = <<File("users.json", FreshHeader, Json(<<>>))>>

\* C19 witness: a fetch-emails run on an empty collection that fetched two
\* pages without error and then exited with status 1
C19_Witness ==
    /\ mode = "emails"
    /\ UsersEmpty
    /\ pc = "exited"
    /\ exitCode = 1
    /\ fetchErr = ""
    /\ Len(SelectSeq(events, IsPage)) = 2

\* a fetch-profile-pictures run on an empty collection that completed
EmptyPicturesRun ==
    /\ mode = "pics"
    /\ UsersEmpty
    /\ pc = "done"
    /\ exitCode = 0
    /\ Len(out) = Len(inFiles)

\* a fetch-emails run on a users.json that does not decode, ended at that entry
UndecodableRun ==
    /\ mode = "emails"
    /\ UsersUndecodable
    /\ pc = "exited"
    /\ Len(SelectSeq(out, IsUsers)) = 1

\* the downloads attempted for the record at position i
GetsFor(i) == SelectSeq(events, LAMBDA x : x.e = "get" /\ x.user = i)

\* every entry added for a picture lies before the rewritten users.json,
\* which carries a fresh header
PicturesBeforeUsers ==
    /\ \A j, k \in 1..Len(out) : (IsPicture(out[j]) /\ IsUsers(out[k])) => j < k
    /\ \A k \in 1..Len(out) : IsUsers(out[k]) => out[k].header = FreshHeader

\* C20 as stated: in fetch-profile-pictures every record handled that has a
\* suitable image_original was requested exactly once; for every response
\* received, whatever its status, the output holds the entry
\* profile_pictures/<id><extension> with the response body and image_path is
\* that name; the picture entries lie before the rewritten users.json, which
\* has a fresh header.
C20_Original ==
    (mode = "pics" /\ HasUsers /\ data # <<>>) =>
        LET orig == Decode(inFiles[UsersAt].body).data
        IN  /\ \A i \in 1..Len(data) :
                 /\ Len(GetsFor(i)) <= 1
                 /\ ~WantsPicture(orig[i]) => Len(GetsFor(i)) = 0
                 /\ (i <= di /\ WantsPicture(orig[i])) => Len(GetsFor(i)) = 1
            /\ \A k \in 1..Len(events) :
                 GotResponse(events[k]) =>
                    LET name == ExpectedPicName(orig[events[k].user])
                    IN  /\ \E j \in 1..Len(out) :
                              out[j] = File(name, FreshHeader, Raw(events[k].r.body))
                        /\ Field(Field(data[events[k].user], "profile"), "image_path") = JStr(name)
            /\ PicturesBeforeUsers

\* What fetch-profile-pictures requests and where it writes: a record is
\* requested at most once, and exactly once when the loop has gone past it
\* and its image_original is suitable; a response is handled the same way
\* whatever its status (image_path set; entry with the body unless creating
\* or streaming failed); the picture entries lie before the rewritten
\* users.json, which has a fresh header.
RequestsAsCoded ==
    (mode = "pics" /\ HasUsers /\ data # <<>>) =>
        LET orig == Decode(inFiles[UsersAt].body).data
        IN  /\ \A i \in 1..Len(data) :
                 /\ Len(GetsFor(i)) <= 1
                 /\ i <= di => Len(GetsFor(i)) = (IF WantsPicture(orig[i]) THEN 1 ELSE 0)
                 /\ i > di + 1 => Len(GetsFor(i)) = 0
            /\ \A k \in 1..Len(events) :
                 (GotResponse(events[k]) /\ events[k].io = "ok") =>
                    LET name == ExpectedPicName(orig[events[k].user])
                    IN  /\ \E j \in 1..Len(out) :
                              out[j] = File(name, FreshHeader, Raw(events[k].r.body))
                        /\ Field(Field(data[events[k].user], "profile"), "image_path") = JStr(name)
            /\ PicturesBeforeUsers

\* a completed run that stored the body of a 404 response as a picture
NotFoundStored ==
    /\ mode = "pics"
    /\ pc = "done"
    /\ \E k \in 1..Len(events) :
         /\ GotResponse(events[k])
         /\ events[k].r.status = 404
         /\ events[k].io = "ok"
    /\ \E j, k \in 1..Len(out) :
         /\ j < k
         /\ out[j] = File("profile_pictures/U2.png", FreshHeader, Raw("img"))
         /\ IsUsers(out[k])
         /\ Field(Field(out[k].body.v[1], "profile"), "image_path") = JStr("profile_pictures/U2.png")

====
